---- MODULE Spec2Model ----
(***************************************************************************)
(* Model of the AFU420 property implementations of tiscamera               *)
(* (src/src/libusb/AFU420PropertyImpl.cpp): the Integer, Double, Bool and  *)
(* Enum properties, each holding a std::weak_ptr m_cam to the device       *)
(* backend that the device object owns through a std::shared_ptr.          *)
(*                                                                         *)
(* One caller thread runs property methods; the device thread may release  *)
(* its owning reference at any point.  A method is split at the points     *)
(* where the other thread can interleave: m_cam.lock(), the backend call,  *)
(* and the return (where the local strong handle `ptr` is destroyed).      *)
(*                                                                         *)
(* Representation of values:                                               *)
(*  - int64_t codes of the Enum property are records [hi, lo] standing for *)
(*    hi * 2^32 + lo with -2^31 <= lo < 2^31, so that the conversion       *)
(*    int64_t -> int (valid_value(int), std::map<int,...>::at) is exact;   *)
(*  - double values are fixed-point numbers counted in tenths (250.7 is    *)
(*    2507), int64_t values of the Integer/Double channels are integers.   *)
(***************************************************************************)
EXTENDS Integers, Sequences, FiniteSets, TLC

\* ------------------------------------------------------------------------
\* Bounds of the model
\* ------------------------------------------------------------------------

\* upper end of the Integer property's range; arguments run over -1 .. MaxInt + 1
MaxInt == 2

\* upper end (in whole units) of the Double property's range
MaxDbl == 1

\* largest 32-bit enumeration code a caller passes or the hardware reports
MaxCode == 3

\* ------------------------------------------------------------------------
\* tcam::status values
\* ------------------------------------------------------------------------

Success == "Success"

ResourceNotLockable == "ResourceNotLockable"

PropertyOutOfBounds == "PropertyOutOfBounds"

PropertyValueDoesNotExist == "PropertyValueDoesNotExist"

UndefinedError == "UndefinedError"

DeviceBlocked == "DeviceBlocked"

\* failures the device backend itself can report for a read or a write
BackendErrors == {DeviceBlocked, UndefinedError}

\* what one backend call reports
BackendOutcomes == {Success} \cup BackendErrors

\* ------------------------------------------------------------------------
\* outcome::result<T>
\* ------------------------------------------------------------------------

\* outcome::success() / a returned value
Ok(v) == [kind |-> "value", v |-> <<v>>]

\* a returned tcam::status error
Fail(e) == [kind |-> "failure", v |-> <<e>>]

\* an exception that leaves the method instead of a result
Throw(x) == [kind |-> "exception", v |-> <<x>>]

\* no result yet
NoResult == [kind |-> "none", v |-> <<>>]

IsOk(r) == r.kind = "value"

IsFail(r, e) == r.kind = "failure" /\ r.v[1] = e

IsFailure(r) == r.kind = "failure"

\* ------------------------------------------------------------------------
\* integer widths and the double representation
\* ------------------------------------------------------------------------

\* the int64_t value hi * 2^32 + lo
I64(hi, lo) == [hi |-> hi, lo |-> lo]

\* int -> int64_t (value preserving)
Widen(k) == I64(0, k)

\* int64_t -> int: the low 32 bits
Narrow(v) == v.lo

\* int64_t -> double, in tenths
IntToDouble(i) == i * 10

\* double (tenths) -> int64_t: the implicit conversion discards the fraction
DoubleToInt(d) == IF d >= 0 THEN d \div 10 ELSE 0 - ((0 - d) \div 10)

\* ------------------------------------------------------------------------
\* inputs
\* ------------------------------------------------------------------------

\* range record (in tenths) the device layer passes to the Double constructor
DblRange == [min |-> 0, max |-> IntToDouble(MaxDbl), step |-> 10, default |-> 10]

\* std::map<int, std::string> in iteration order (ascending key)
EntriesA ==
    << [first |-> 0, second |-> "Off"],
       [first |-> 1, second |-> "Auto"],
       [first |-> 2, second |-> "Manual"] >>

\* a table with a gap in the codes and a label carried by two entries
EntriesB ==
    << [first |-> 0, second |-> "Off"],
       [first |-> 1, second |-> "Auto"],
       [first |-> 3, second |-> "Auto"] >>

\* what the device layer passes to the four constructors, per device
Devices ==
    { [int |-> [min |-> 0, max |-> MaxInt, step |-> 1, default |-> 1],
       dbl |-> DblRange, bool |-> FALSE, entries |-> EntriesA],
      [int |-> [min |-> 1, max |-> MaxInt, step |-> 2, default |-> 1],
       dbl |-> DblRange, bool |-> TRUE, entries |-> EntriesB] }

\* PropertyFlags::Available | PropertyFlags::Implemented, as a set of bits
ConstructedFlags == {"Available", "Implemented"}

\* arguments of set_flags
FlagArgs == SUBSET {"Available", "Implemented"}

\* arguments of Integer set_value
IntArgs == (0 - 1) .. (MaxInt + 1)

\* arguments of Double set_value, in tenths: d.0 and d.7 for d in -1 .. MaxDbl + 1
DblArgs == { IntToDouble(d) + f : d \in (0 - 1) .. (MaxDbl + 1), f \in {0, 7} }

\* arguments of Enum set_value: the 32-bit codes and one code above 2^32
EnumArgs == { Widen(k) : k \in 0 .. MaxCode } \cup { I64(1, 1) }

\* arguments of Enum set_value_str
LabelArgs == {"Off", "Auto", "Manual", "Bogus"}

\* ------------------------------------------------------------------------
\* state
\* ------------------------------------------------------------------------

VARIABLES
    use_count,      \* number of std::shared_ptr owners of the backend
    alive,          \* the backend object has not been destroyed
    owner,          \* the device object still holds its shared_ptr
    store,          \* the backend's value per property id
    integerImpl,    \* AFU420PropertyIntegerImpl: m_min, m_max, m_step, m_default
    doubleImpl,     \* AFU420PropertyDoubleImpl: m_min, m_max, m_step, m_default
    boolImpl,       \* AFU420PropertyBoolImpl: m_default, m_value
    enumImpl,       \* AFU420PropertyEnumImpl: m_entries
    call,           \* the property method the caller thread is in
    dangling,       \* the backend was used after it had been destroyed
    last_set,       \* history: the argument of the last successful Integer
                    \* set_value, and the label if the last successful
                    \* Enum write was a set_value_str
    self,           \* GstTcamMainSrc and its device_state: the element's
                    \* state, n_buffers, imagesink_buffers, is_running, the
                    \* device, its stream and sink, device->queue, the owner
                    \* of device->mtx, the number of frames captured
    frame_count,    \* the static frame_count of gst_tcam_mainsrc_create
    streaming,      \* the streaming thread: where it is in create() or
                    \* set_caps(), what the last create() returned, and
                    \* history of this run
    pipeline,       \* the thread that changes the element's state: where
                    \* it is in stop(), what the last change_state returned
                    \* and whether it went through the parent class
    capture,        \* the device's thread: where it is in sh_callback and
                    \* in the device-lost callback
    downstream      \* the buffers handed out, and the thread that runs
                    \* buffer_destroy_callback

vars == << use_count, alive, owner, store, integerImpl, doubleImpl, boolImpl,
           enumImpl, call, dangling, last_set, self, frame_count, streaming,
           pipeline, capture, downstream >>

\* the source element
srcvars == << self, frame_count, streaming, pipeline, capture, downstream >>

\* the properties and their backend
propvars == << use_count, alive, owner, store, integerImpl, doubleImpl,
               boolImpl, enumImpl, call, dangling, last_set >>

props == << integerImpl, doubleImpl, boolImpl, enumImpl >>

\* ------------------------------------------------------------------------
\* std::weak_ptr / std::shared_ptr
\* ------------------------------------------------------------------------

\* a lock() that hands out the stored pointer without looking at the owners
LockStale(uc) == [ptr |-> TRUE, use_count |-> uc + 1]

\* a lock() that tests for an owner but takes no share of the ownership
LockNoRef(uc) == [ptr |-> uc > 0, use_count |-> uc]

\* m_cam.lock(), one atomic step: a strong handle iff an owner is left
Lock(uc) ==
    IF uc > 0 THEN [ptr |-> TRUE, use_count |-> uc + 1]
              ELSE [ptr |-> FALSE, use_count |-> uc]

\* destruction of one std::shared_ptr: the last owner destroys the backend
ReleaseRef ==
    /\ use_count' = use_count - 1
    /\ alive' = (alive /\ use_count - 1 > 0)

\* ------------------------------------------------------------------------
\* AFU420DeviceBackend: a store per property id
\* ------------------------------------------------------------------------

\* get_int(id) / get_bool(id) when the backend reports b
Backend_get(id, b) == IF b = Success THEN Ok(store[id]) ELSE Fail(b)

\* the result of set_int(id, v) / set_bool(id, v) when the backend reports b
Backend_set(id, v, b) == IF b = Success THEN Ok("void") ELSE Fail(b)

\* the store after set_int(id, v) / set_bool(id, v) when the backend reports b
Backend_store(id, v, b) == IF b = Success THEN [store EXCEPT ![id] = v] ELSE store

\* ------------------------------------------------------------------------
\* the caller thread's position in a property method
\* ------------------------------------------------------------------------

\* no method entered yet
NoCall ==
    [op |-> "none", arg |-> <<>>, pc |-> "idle", ptr |-> FALSE, live |-> FALSE,
     locks |-> 0, reads |-> 0, writes |-> <<>>, fwd |-> <<>>,
     ret |-> NoResult, result |-> NoResult,
     pre |-> [store |-> store, m_value |-> boolImpl.m_value],
     first |-> <<>>]

\* the get_value() methods
GetValueOps ==
    {"Integer.get_value", "Double.get_value", "Bool.get_value", "Enum.get_value"}

\* history: when get_value() op is entered right after the same get_value()
\* has returned, what that first call returned and met
Repeated(op) ==
    IF call.pc = "done" /\ call.op = op /\ op \in GetValueOps
    THEN << [result |-> call.result, live |-> call.live,
             faithful |-> ~IsFailure(call.ret)] >>
    ELSE <<>>

\* the caller is between two method calls
Idle == call.pc \in {"idle", "done"}

\* the caller is inside method op called with arguments arg
At(op, arg) == call.op = op /\ call.arg = arg

\* a method that returns e before it resolves the backend
Reject(op, arg, e) ==
    /\ Idle
    /\ call' = [NoCall EXCEPT !.op = op, !.arg = arg, !.pc = "done",
                              !.live = alive, !.result = Fail(e),
                              !.first = Repeated(op)]
    /\ UNCHANGED << srcvars, use_count, alive, owner, store, props, dangling, last_set >>

\* a method that returns result without resolving the backend
Answer(op, arg, result) ==
    /\ Idle
    /\ call' = [NoCall EXCEPT !.op = op, !.arg = arg, !.pc = "done",
                              !.live = alive, !.result = result]
    /\ UNCHANGED << srcvars, use_count, alive, owner, store, props, dangling, last_set >>

\* `if (auto ptr = m_cam.lock())` of a method that will pass fwd to the backend,
\* and the else branch that returns ResourceNotLockable
Enter(op, arg, fwd) ==
    /\ Idle
    /\ LET l == Lock(use_count) IN
         /\ use_count' = l.use_count
         /\ call' = IF l.ptr
                    THEN [NoCall EXCEPT !.op = op, !.arg = arg, !.pc = "locked",
                                        !.ptr = TRUE, !.live = alive,
                                        !.locks = 1, !.fwd = fwd,
                                        !.first = Repeated(op)]
                    ELSE [NoCall EXCEPT !.op = op, !.arg = arg, !.pc = "done",
                                        !.live = alive, !.locks = 1,
                                        !.result = Fail(ResourceNotLockable),
                                        !.first = Repeated(op)]
    /\ UNCHANGED << srcvars, alive, owner, store, props, dangling, last_set >>

\* ptr->get_int(id) / ptr->get_bool(id)
BackendRead(op, id) ==
    /\ call.pc = "locked"
    /\ call.op = op
    /\ \E b \in BackendOutcomes :
         call' = [call EXCEPT !.pc = "called", !.reads = @ + 1,
                              !.ret = Backend_get(id, b)]
    /\ dangling' = (dangling \/ ~alive)
    /\ UNCHANGED << srcvars, use_count, alive, owner, store, props, last_set >>

\* a write that is repeated once when the backend reports a failure
BackendWriteRetried(op, id, v) ==
    /\ call.pc = "locked"
    /\ call.op = op
    /\ \E b1, b2 \in BackendOutcomes :
         IF b1 = Success
         THEN /\ call' = [call EXCEPT !.pc = "called",
                                      !.writes = Append(@, [id |-> id, v |-> v]),
                                      !.ret = Backend_set(id, v, b1)]
              /\ store' = Backend_store(id, v, b1)
         ELSE /\ call' = [call EXCEPT !.pc = "called",
                                      !.writes = @ \o << [id |-> id, v |-> v],
                                                         [id |-> id, v |-> v] >>,
                                      !.ret = Backend_set(id, v, b2)]
              /\ store' = Backend_store(id, v, b2)
    /\ dangling' = (dangling \/ ~alive)
    /\ UNCHANGED << srcvars, use_count, alive, owner, props, last_set >>

\* ptr->set_int(id, v) / ptr->set_bool(id, v)
BackendWrite(op, id, v) ==
    /\ call.pc = "locked"
    /\ call.op = op
    /\ \E b \in BackendOutcomes :
         /\ call' = [call EXCEPT !.pc = "called",
                                 !.writes = Append(@, [id |-> id, v |-> v]),
                                 !.ret = Backend_set(id, v, b)]
         /\ store' = Backend_store(id, v, b)
    /\ dangling' = (dangling \/ ~alive)
    /\ UNCHANGED << srcvars, use_count, alive, owner, props, last_set >>

\* a return that keeps the strong handle, as a std::shared_ptr member would
ReturnKeepingHandle(op, result) ==
    /\ call.pc = "called"
    /\ call.op = op
    /\ call' = [call EXCEPT !.pc = "done", !.result = result]
    /\ last_set' =
         IF ~IsOk(result) THEN last_set
         ELSE IF op = "Integer.set_value" THEN [last_set EXCEPT !.int = call.arg]
         ELSE IF op = "Enum.set_value_str" THEN [last_set EXCEPT !.enum = call.arg]
         ELSE IF op = "Enum.set_value" THEN [last_set EXCEPT !.enum = <<>>]
         ELSE last_set
    /\ UNCHANGED << srcvars, use_count, alive, owner, store, dangling >>

\* the method returns result; its strong handle ptr goes out of scope
Return(op, result) ==
    /\ call.pc = "called"
    /\ call.op = op
    /\ call' = [call EXCEPT !.pc = "done", !.ptr = FALSE, !.result = result]
    /\ ReleaseRef
    /\ last_set' =
         IF ~IsOk(result) THEN last_set
         ELSE IF op = "Integer.set_value" THEN [last_set EXCEPT !.int = call.arg]
         ELSE IF op = "Enum.set_value_str" THEN [last_set EXCEPT !.enum = call.arg]
         ELSE IF op = "Enum.set_value" THEN [last_set EXCEPT !.enum = <<>>]
         ELSE last_set
    /\ UNCHANGED << srcvars, owner, store, dangling >>

\* ------------------------------------------------------------------------
\* AFU420PropertyIntegerImpl
\* ------------------------------------------------------------------------

\* get_flags(): the stored bitmask
IntegerImpl_get_flags == integerImpl.m_flags

\* set_flags(flags), called by the device layer
IntegerImpl_set_flags(flags) ==
    /\ integerImpl' = [integerImpl EXCEPT !.m_flags = flags]
    /\ UNCHANGED << srcvars, use_count, alive, owner, store, doubleImpl, boolImpl,
                    enumImpl, call, dangling, last_set >>

IntegerImpl_get_min == integerImpl.m_min

IntegerImpl_get_max == integerImpl.m_max

IntegerImpl_get_step == integerImpl.m_step

\* a get_default that asks the backend for its current value
IntegerImpl_get_default_requeried == store.int

IntegerImpl_get_default == integerImpl.m_default

\* a valid_value that also wants value on the step grid from the minimum
IntegerImpl_valid_value_aligned(value) ==
    IF IntegerImpl_get_min > value \/ value > IntegerImpl_get_max
       \/ (value - IntegerImpl_get_min) % IntegerImpl_get_step # 0
    THEN Fail(PropertyOutOfBounds)
    ELSE Ok("void")

\* valid_value(value)
IntegerImpl_valid_value(value) ==
    IF IntegerImpl_get_min > value \/ value > IntegerImpl_get_max
    THEN Fail(PropertyOutOfBounds)
    ELSE Ok("void")

\* a caller asks valid_value(value)
IntegerImpl_valid_value_call(value) ==
    Answer("Integer.valid_value", <<value>>, IntegerImpl_valid_value(value))

\* a get_value() whose read puts the control back to its default
IntegerImpl_get_value_resetting ==
    \/ Enter("Integer.get_value", <<>>, <<>>)
    \/ BackendRead("Integer.get_value", "int")
    \/ /\ call.pc = "called"
       /\ call.op = "Integer.get_value"
       /\ call' = [call EXCEPT !.pc = "done", !.ptr = FALSE, !.result = call.ret]
       /\ ReleaseRef
       /\ store' = [store EXCEPT !.int = integerImpl.m_default]
       /\ UNCHANGED << srcvars, owner, dangling, last_set, props >>

\* get_value()
IntegerImpl_get_value ==
    \/ Enter("Integer.get_value", <<>>, <<>>)
    \/ BackendRead("Integer.get_value", "int")
    \/ Return("Integer.get_value", call.ret) /\ UNCHANGED props

\* a set_value that refuses the upper boundary before it resolves the backend
IntegerImpl_set_value_exclusive(new_value) ==
    \/ IF new_value >= IntegerImpl_get_max
       THEN Reject("Integer.set_value", <<new_value>>, PropertyOutOfBounds)
       ELSE Enter("Integer.set_value", <<new_value>>, <<new_value>>)
    \/ At("Integer.set_value", <<new_value>>) /\ BackendWrite("Integer.set_value", "int", call.fwd[1])
    \/ At("Integer.set_value", <<new_value>>) /\ Return("Integer.set_value", call.ret) /\ UNCHANGED props

\* set_value(new_value): new_value goes to set_int as it is
IntegerImpl_set_value(new_value) ==
    \/ Enter("Integer.set_value", <<new_value>>, <<new_value>>)
    \/ At("Integer.set_value", <<new_value>>) /\ BackendWrite("Integer.set_value", "int", call.fwd[1])
    \/ At("Integer.set_value", <<new_value>>) /\ Return("Integer.set_value", call.ret) /\ UNCHANGED props

\* ------------------------------------------------------------------------
\* AFU420PropertyDoubleImpl
\* ------------------------------------------------------------------------

DoubleImpl_get_min == doubleImpl.m_min

DoubleImpl_get_max == doubleImpl.m_max

DoubleImpl_get_step == doubleImpl.m_step

DoubleImpl_get_default == doubleImpl.m_default

\* valid_value(value)
DoubleImpl_valid_value(value) ==
    IF DoubleImpl_get_min > value \/ value > DoubleImpl_get_max
    THEN Fail(PropertyOutOfBounds)
    ELSE Ok("void")

\* a caller asks valid_value(value)
DoubleImpl_valid_value_call(value) ==
    Answer("Double.valid_value", <<value>>, DoubleImpl_valid_value(value))

\* what get_value() returns for the result ret of get_int
DoubleImpl_get_value_result(ret) ==
    IF IsOk(ret) THEN Ok(IntToDouble(ret.v[1])) ELSE ret

\* get_value()
DoubleImpl_get_value ==
    \/ Enter("Double.get_value", <<>>, <<>>)
    \/ BackendRead("Double.get_value", "dbl")
    \/ Return("Double.get_value", DoubleImpl_get_value_result(call.ret)) /\ UNCHANGED props

\* set_value(new_value): the double is passed to set_int(id, int64_t)
DoubleImpl_set_value(new_value) ==
    \/ Enter("Double.set_value", <<new_value>>, <<DoubleToInt(new_value)>>)
    \/ At("Double.set_value", <<new_value>>) /\ BackendWrite("Double.set_value", "dbl", call.fwd[1])
    \/ At("Double.set_value", <<new_value>>) /\ Return("Double.set_value", call.ret) /\ UNCHANGED props

\* ------------------------------------------------------------------------
\* AFU420PropertyBoolImpl
\* ------------------------------------------------------------------------

\* get_value()
BoolImpl_get_value ==
    \/ Enter("Bool.get_value", <<>>, <<>>)
    \/ BackendRead("Bool.get_value", "bool")
    \/ Return("Bool.get_value", call.ret) /\ UNCHANGED props

\* what set_value() returns for the result ret of set_bool
BoolImpl_set_value_result(ret) ==
    IF IsOk(ret) THEN Ok("void") ELSE Fail(UndefinedError)

\* a set_value that updates the mirror whatever set_bool reports
BoolImpl_set_value_optimistic(new_value) ==
    \/ Enter("Bool.set_value", <<new_value>>, <<new_value>>)
    \/ At("Bool.set_value", <<new_value>>) /\ BackendWrite("Bool.set_value", "bool", call.fwd[1])
    \/ /\ At("Bool.set_value", <<new_value>>)
       /\ Return("Bool.set_value", BoolImpl_set_value_result(call.ret))
       /\ boolImpl' = [boolImpl EXCEPT !.m_value = new_value]
       /\ UNCHANGED << integerImpl, doubleImpl, enumImpl >>

\* set_value(new_value)
BoolImpl_set_value(new_value) ==
    \/ Enter("Bool.set_value", <<new_value>>, <<new_value>>)
    \/ At("Bool.set_value", <<new_value>>) /\ BackendWrite("Bool.set_value", "bool", call.fwd[1])
    \/ /\ At("Bool.set_value", <<new_value>>)
       /\ Return("Bool.set_value", BoolImpl_set_value_result(call.ret))
       /\ boolImpl' = IF IsOk(call.ret) THEN [boolImpl EXCEPT !.m_value = new_value]
                                        ELSE boolImpl
       /\ UNCHANGED << integerImpl, doubleImpl, enumImpl >>

\* ------------------------------------------------------------------------
\* AFU420PropertyEnumImpl
\* ------------------------------------------------------------------------

\* m_entries.find(key): index of the entry with that key, 0 for end()
RECURSIVE EntriesFind(_, _, _)
EntriesFind(entries, key, i) ==
    IF i > Len(entries) THEN 0
    ELSE IF entries[i].first = key THEN i
    ELSE EntriesFind(entries, key, i + 1)

\* valid_value(int value)
EnumImpl_valid_value(value) == EntriesFind(enumImpl.m_entries, value, 1) # 0

\* a loop that stops one entry before the end
RECURSIVE EnumImpl_lookup_short(_, _, _)
EnumImpl_lookup_short(entries, new_value, i) ==
    IF i >= Len(entries) THEN 0
    ELSE IF entries[i].second = new_value THEN i
    ELSE EnumImpl_lookup_short(entries, new_value, i + 1)

\* the loop of set_value_str: index of the first entry whose label is
\* new_value, 0 when the loop runs to the end
RECURSIVE EnumImpl_lookup(_, _, _)
EnumImpl_lookup(entries, new_value, i) ==
    IF i > Len(entries) THEN 0
    ELSE IF entries[i].second = new_value THEN i
    ELSE EnumImpl_lookup(entries, new_value, i + 1)

\* the loop of get_entries(): it walks the table from begin() to end() and
\* pushes it->second onto v
RECURSIVE EnumImpl_push_back(_, _, _)
EnumImpl_push_back(entries, it, v) ==
    IF it > Len(entries) THEN v
    ELSE EnumImpl_push_back(entries, it + 1, Append(v, entries[it].second))

\* a get_entries() that lists every label once
EnumImpl_get_entries_unique ==
    LET labels == EnumImpl_push_back(enumImpl.m_entries, 1, <<>>)
        kept == SelectSeq([i \in DOMAIN labels |-> <<i, labels[i]>>],
                          LAMBDA p : \A j \in 1 .. p[1] - 1 : labels[j] # p[2])
    IN  [i \in DOMAIN kept |-> kept[i][2]]

\* get_entries()
EnumImpl_get_entries ==
    EnumImpl_push_back(enumImpl.m_entries, 1, <<>>)

\* an at() that takes the code for a position in the table
EnumImpl_at_position(value) ==
    IF Narrow(value) + 1 \in 1 .. Len(enumImpl.m_entries)
    THEN Ok(enumImpl.m_entries[Narrow(value) + 1].second)
    ELSE Throw("std::out_of_range")

\* m_entries.at(value) with an int64_t value: the key is converted to int,
\* a missing key throws std::out_of_range
EnumImpl_at(value) ==
    LET i == EntriesFind(enumImpl.m_entries, Narrow(value), 1) IN
    IF i = 0 THEN Throw("std::out_of_range") ELSE Ok(enumImpl.m_entries[i].second)

\* set_value(int64_t new_value) up to the lock, entered as method op with
\* argument arg; valid_value takes an int
EnumImpl_set_value_enter(op, arg, new_value) ==
    IF ~EnumImpl_valid_value(Narrow(new_value))
    THEN Reject(op, arg, PropertyValueDoesNotExist)
    ELSE Enter(op, arg, <<new_value>>)

\* set_value(new_value)
EnumImpl_set_value(new_value) ==
    \/ EnumImpl_set_value_enter("Enum.set_value", <<new_value>>, new_value)
    \/ At("Enum.set_value", <<new_value>>) /\ BackendWrite("Enum.set_value", "enum", call.fwd[1])
    \/ At("Enum.set_value", <<new_value>>) /\ Return("Enum.set_value", call.ret) /\ UNCHANGED props

\* a set_value_str that hands set_value the position of the entry found
EnumImpl_set_value_str_position(new_value) ==
    \/ LET i == EnumImpl_lookup(enumImpl.m_entries, new_value, 1) IN
         IF i = 0
         THEN Reject("Enum.set_value_str", <<new_value>>, PropertyValueDoesNotExist)
         ELSE EnumImpl_set_value_enter("Enum.set_value_str", <<new_value>>, Widen(i))
    \/ At("Enum.set_value_str", <<new_value>>) /\ BackendWrite("Enum.set_value_str", "enum", call.fwd[1])
    \/ At("Enum.set_value_str", <<new_value>>) /\ Return("Enum.set_value_str", call.ret) /\ UNCHANGED props

\* set_value_str(new_value)
EnumImpl_set_value_str(new_value) ==
    \/ LET i == EnumImpl_lookup(enumImpl.m_entries, new_value, 1) IN
         IF i = 0
         THEN Reject("Enum.set_value_str", <<new_value>>, PropertyValueDoesNotExist)
         ELSE EnumImpl_set_value_enter("Enum.set_value_str", <<new_value>>,
                                       Widen(enumImpl.m_entries[i].first))
    \/ At("Enum.set_value_str", <<new_value>>) /\ BackendWrite("Enum.set_value_str", "enum", call.fwd[1])
    \/ At("Enum.set_value_str", <<new_value>>) /\ Return("Enum.set_value_str", call.ret) /\ UNCHANGED props

\* get_value_int()
EnumImpl_get_value_int ==
    \/ Enter("Enum.get_value_int", <<>>, <<>>)
    \/ BackendRead("Enum.get_value_int", "enum")
    \/ Return("Enum.get_value_int", call.ret) /\ UNCHANGED props

\* what get_value() makes of the result ret of get_value_int()
EnumImpl_get_value_result(ret) ==
    IF IsOk(ret) THEN EnumImpl_at(ret.v[1]) ELSE ret

\* get_value(): get_value_int(), then the label of the code
EnumImpl_get_value ==
    \/ Enter("Enum.get_value", <<>>, <<>>)
    \/ BackendRead("Enum.get_value", "enum")
    \/ Return("Enum.get_value", EnumImpl_get_value_result(call.ret)) /\ UNCHANGED props

\* ------------------------------------------------------------------------
\* the device object
\* ------------------------------------------------------------------------

\* the device is closed: it gives up its std::shared_ptr to the backend
DeviceRelease ==
    /\ owner
    /\ owner' = FALSE
    /\ ReleaseRef
    /\ UNCHANGED << srcvars, store, props, call, dangling, last_set >>

\* ------------------------------------------------------------------------
\* specification
\* ------------------------------------------------------------------------

\* the device is open, the properties are constructed, the hardware holds
\* the defaults and any enumeration code
\* ------------------------------------------------------------------------
\* GstTcamMainSrc
\* ------------------------------------------------------------------------

\* the default of camera-buffers
GST_TCAM_MAINSRC_DEFAULT_N_BUFFERS == 10

\* the streaming thread outside create(), in a run that has handed out
\* no buffer; handed counts the buffers of the create() calls that went
\* through the num-buffers count, out and prev are the last two buffers
\* handed out, lost tells that the device-lost callback has cleared
\* is_running, waited that the create() has been in cv.wait, caps what the
\* last set_caps() of the run returned
NoCreate ==
    [pc |-> "idle", ret |-> "none", why |-> "none", counted |-> FALSE,
     handed |-> 0, changed |-> FALSE, out |-> 0, prev |-> 0, lost |-> FALSE,
     waited |-> FALSE, caps |-> "none"]

\* the element after gst_tcam_mainsrc_init, no thread in any of its functions
InitElement ==
    /\ self = [state |-> "NULL", n_buffers |-> -1,
               imagesink_buffers |-> GST_TCAM_MAINSRC_DEFAULT_N_BUFFERS,
               is_running |-> FALSE, dev |-> "closed", stream |-> FALSE,
               sink |-> FALSE, queue |-> <<>>, mtx |-> "free", seq |-> 0]
    /\ frame_count = 0
    /\ streaming = NoCreate
    /\ pipeline = [pc |-> "idle", ret |-> "none", parent |-> FALSE]
    /\ capture = [pc |-> "idle", buf |-> 0, lost |-> "idle", eos |-> 0]
    /\ downstream = [out |-> {}, pc |-> "idle", buf |-> 0, given |-> {},
                     twice |-> FALSE, null_sink |-> FALSE]

Init ==
    /\ use_count = 1
    /\ alive = TRUE
    /\ owner = TRUE
    /\ dangling = FALSE
    /\ last_set = [int |-> <<>>, enum |-> <<>>]
    /\ \E d \in Devices :
         /\ integerImpl = [m_min |-> d.int.min, m_max |-> d.int.max,
                           m_step |-> d.int.step, m_default |-> d.int.default,
                           m_flags |-> ConstructedFlags]
         /\ doubleImpl = [m_min |-> d.dbl.min, m_max |-> d.dbl.max,
                          m_step |-> d.dbl.step, m_default |-> d.dbl.default,
                          m_flags |-> ConstructedFlags]
         /\ boolImpl = [m_default |-> d.bool, m_value |-> d.bool,
                        m_flags |-> ConstructedFlags]
         /\ enumImpl = [m_entries |-> d.entries, m_flags |-> ConstructedFlags]
    /\ \E k \in 0 .. MaxCode :
         store = [int |-> integerImpl.m_default,
                  dbl |-> DoubleToInt(doubleImpl.m_default),
                  bool |-> boolImpl.m_default,
                  enum |-> Widen(k)]
    /\ call = NoCall
    /\ InitElement

Next ==
    \/ IntegerImpl_get_value
    \/ \E v \in IntArgs : IntegerImpl_set_value(v)
    \/ DoubleImpl_get_value
    \/ \E v \in DblArgs : DoubleImpl_set_value(v)
    \/ BoolImpl_get_value
    \/ \E v \in BOOLEAN : BoolImpl_set_value(v)
    \/ \E v \in EnumArgs : EnumImpl_set_value(v)
    \/ \E v \in LabelArgs : EnumImpl_set_value_str(v)
    \/ EnumImpl_get_value_int
    \/ EnumImpl_get_value
    \/ DeviceRelease

Spec == Init /\ [][Next]_vars

\* the Integer property with its flags: its methods, set_flags by the device
\* layer, and the device's release
NextFlags ==
    \/ DeviceRelease
    \/ \E f \in FlagArgs : IntegerImpl_set_flags(f)
    \/ IntegerImpl_get_value
    \/ \E v \in IntArgs : IntegerImpl_set_value(v)

SpecFlags == Init /\ [][NextFlags]_vars

\* the numeric properties with their validation rule: valid_value and
\* set_value of Integer and Double, and the device's release
NextValid ==
    \/ \E v \in IntArgs : IntegerImpl_valid_value_call(v)
    \/ \E v \in DblArgs : DoubleImpl_valid_value_call(v)
    \/ \E v \in IntArgs : IntegerImpl_set_value(v)
    \/ \E v \in DblArgs : DoubleImpl_set_value(v)
    \/ DeviceRelease

SpecValid == Init /\ [][NextValid]_vars

\* the tcam_value_int records a caller of the Integer constructor can pass:
\* the constructor takes the struct by value and looks at none of its fields
IntRangeRecords ==
    [min : 0 .. 1, max : {MaxInt}, step : 0 .. 1, default : 0 .. MaxInt + 1]

\* the tcam_value_double records (in tenths) a caller of the Double
\* constructor can pass
DblRangeRecords ==
    { DblRange, [DblRange EXCEPT !.step = 0],
      [DblRange EXCEPT !.default = IntToDouble(MaxDbl) + 10] }

\* the state after the constructors, for any record passed to the numeric ones
InitAnyRange ==
    /\ use_count = 1
    /\ alive = TRUE
    /\ owner = TRUE
    /\ dangling = FALSE
    /\ last_set = [int |-> <<>>, enum |-> <<>>]
    /\ \E i \in IntRangeRecords :
         integerImpl = [m_min |-> i.min, m_max |-> i.max, m_step |-> i.step,
                        m_default |-> i.default, m_flags |-> ConstructedFlags]
    /\ \E d \in DblRangeRecords :
         doubleImpl = [m_min |-> d.min, m_max |-> d.max, m_step |-> d.step,
                       m_default |-> d.default, m_flags |-> ConstructedFlags]
    /\ boolImpl = [m_default |-> FALSE, m_value |-> FALSE,
                   m_flags |-> ConstructedFlags]
    /\ enumImpl = [m_entries |-> EntriesA, m_flags |-> ConstructedFlags]
    /\ store = [int |-> integerImpl.m_default,
                dbl |-> DoubleToInt(doubleImpl.m_default),
                bool |-> boolImpl.m_default,
                enum |-> Widen(0)]
    /\ call = NoCall
    /\ InitElement

\* the numeric properties after construction: valid_value and the release
NextCtor ==
    \/ \E v \in IntArgs : IntegerImpl_valid_value_call(v)
    \/ \E v \in DblArgs : DoubleImpl_valid_value_call(v)
    \/ DeviceRelease

SpecCtor == InitAnyRange /\ [][NextCtor]_vars

\* ------------------------------------------------------------------------
\* GstTcamMainSrc: properties, state changes, the device's callbacks,
\* create() and buffer_destroy_callback
\* ------------------------------------------------------------------------

\* largest num-buffers set
MaxBuffers == 2

\* most buffers waiting in device->queue
MaxQueue == 2

\* most frames the device captures
MaxFrames == 2

\* values of num-buffers: -1 (unlimited) and the counts up to MaxBuffers
NumBuffersArgs == -1 .. MaxBuffers

\* values of camera-buffers: the ends of its range 1 .. 256
CamBuffersArgs == {1, 256}

\* the GstStateChangeReturn of gst_element_get_state for an element that is
\* settled in state: a live source in PAUSED reports NO_PREROLL
gst_element_get_state(state) ==
    IF state = "PAUSED" THEN {"NO_PREROLL"} ELSE {"SUCCESS"}

\* device->cv.notify_all(): the streaming thread, if it is in cv.wait,
\* leaves the wait
notify_all(thread) ==
    IF thread.pc = "waiting" THEN [thread EXCEPT !.pc = "woken"] ELSE thread

\* set_property(PROP_NUM_BUFFERS, value)
set_property_num_buffers(value) ==
    /\ self' = [self EXCEPT !.n_buffers = value]
    /\ streaming' = [streaming EXCEPT !.changed = TRUE]
    /\ UNCHANGED << frame_count, pipeline, capture, downstream, propvars >>

\* set_property(PROP_CAM_BUFFERS, value)
set_property_cam_buffers(value) ==
    /\ \E ret \in gst_element_get_state(self.state) :
         self' = IF ret # "SUCCESS" /\ self.state # "NULL"
                 THEN self
                 ELSE [self EXCEPT !.imagesink_buffers = value]
    /\ UNCHANGED << frame_count, streaming, pipeline, capture, downstream, propvars >>

\* the state changes that call neither start() nor stop()
StateChanges ==
    { <<"NULL", "READY">>, <<"PAUSED", "PLAYING">>, <<"PLAYING", "PAUSED">>,
      <<"READY", "NULL">> }

\* mainsrc_init_camera: the device of the element after an attempt to open
\* it that succeeds (ok) or fails
mainsrc_init_camera(dev, ok) == IF ok THEN "open" ELSE dev

\* mainsrc_close_camera: the device is closed, and with it its sink and
\* its stream
mainsrc_close_camera(s) ==
    [s EXCEPT !.dev = "closed", !.sink = FALSE, !.stream = FALSE]

\* a close_camera that keeps the device
gst_tcam_mainsrc_close_camera_kept(s) == s

\* gst_tcam_mainsrc_close_camera
gst_tcam_mainsrc_close_camera(s) == mainsrc_close_camera(s)

\* what the last change_state returned and whether it called the parent
\* class
Returned(ret, parent) == [pipeline EXCEPT !.ret = ret, !.parent = parent]

\* set_property(PROP_SERIAL, value) with an empty or a set serial: in NULL
\* it closes the device that is open and, for a serial that is set, opens
\* the device of that serial
set_property_serial(empty) ==
    /\ pipeline.pc = "idle"
    /\ \E ok \in BOOLEAN :
         LET closed == IF self.dev # "closed"
                       THEN gst_tcam_mainsrc_close_camera(self) ELSE self
         IN self' = IF self.state # "NULL" THEN self
                    ELSE IF empty THEN closed
                    ELSE [closed EXCEPT !.dev = mainsrc_init_camera(@, ok)]
    /\ UNCHANGED << frame_count, streaming, pipeline, capture, downstream, propvars >>

\* a change_state that goes on to the parent class when the camera could
\* not be initialised
gst_tcam_mainsrc_change_state_onward(change, initialised, parent_ok) ==
    /\ pipeline.pc = "idle"
    /\ self.state = change[1]
    /\   LET must_init == change = <<"NULL", "READY">> /\ self.dev = "closed"
             dev == IF must_init THEN mainsrc_init_camera(self.dev, initialised)
                                 ELSE self.dev
             changed == [self EXCEPT !.state = change[2], !.dev = dev]
         IN IF ~parent_ok
            THEN /\ self' = [self EXCEPT !.dev = dev]
                 /\ pipeline' = Returned("FAILURE", TRUE)
                 /\ UNCHANGED capture
            ELSE /\ self' = IF change = <<"READY", "NULL">>
                            THEN gst_tcam_mainsrc_close_camera(changed)
                            ELSE changed
                 /\ pipeline' = Returned("SUCCESS", TRUE)
                 /\ capture' = IF change[2] = "READY"
                               THEN [capture EXCEPT !.eos = 0] ELSE capture
    /\ UNCHANGED << frame_count, streaming, downstream, propvars >>

\* change_state(change), with a camera that can be initialised or not and
\* a parent class that makes the transition or fails: on NULL -> READY with
\* no device it initialises the camera and gives up with FAILURE if that
\* fails; then the parent class makes the transition, and its FAILURE is
\* returned as it is; after READY -> NULL the camera is closed
gst_tcam_mainsrc_change_state(change, initialised, parent_ok) ==
    /\ pipeline.pc = "idle"
    /\ self.state = change[1]
    /\   LET must_init == change = <<"NULL", "READY">> /\ self.dev = "closed"
             dev == IF must_init THEN mainsrc_init_camera(self.dev, initialised)
                                 ELSE self.dev
             changed == [self EXCEPT !.state = change[2], !.dev = dev]
         IN IF must_init /\ ~initialised
            THEN /\ pipeline' = Returned("FAILURE", FALSE)
                 /\ UNCHANGED << self, capture >>
            ELSE IF ~parent_ok
            THEN /\ self' = [self EXCEPT !.dev = dev]
                 /\ pipeline' = Returned("FAILURE", TRUE)
                 /\ UNCHANGED capture
            ELSE /\ self' = IF change = <<"READY", "NULL">>
                            THEN gst_tcam_mainsrc_close_camera(changed)
                            ELSE changed
                 /\ pipeline' = Returned("SUCCESS", TRUE)
                 /\ capture' = IF change[2] = "READY"
                               THEN [capture EXCEPT !.eos = 0] ELSE capture
    /\ UNCHANGED << frame_count, streaming, downstream, propvars >>

\* start(), called on READY -> PAUSED with the streaming thread of the
\* run before ended: a run of the element begins
gst_tcam_mainsrc_start ==
    /\ pipeline.pc = "idle"
    /\ streaming.pc = "idle"
    /\ self.state = "READY"
    /\ self' = [self EXCEPT !.state = "PAUSED", !.is_running = TRUE]
    /\ streaming' = [streaming EXCEPT !.ret = "none", !.why = "none",
                                      !.handed = 0, !.changed = FALSE,
                                      !.lost = FALSE, !.caps = "none"]
    /\ pipeline' = Returned("SUCCESS", TRUE)
    /\ UNCHANGED << frame_count, capture, downstream, propvars >>

\* device->stop_and_clear(): the stream is stopped and device->queue
\* emptied
stop_and_clear(s) == [s EXCEPT !.stream = FALSE, !.queue = <<>>]

\* a stop() that sends the EOS event before it gives up device->mtx
gst_tcam_mainsrc_stop_holding ==
    \/ /\ pipeline.pc = "idle"
       /\ self.state = "PAUSED"
       /\ self.mtx = "free"
       /\ self' = [stop_and_clear(self) EXCEPT !.is_running = FALSE,
                                               !.mtx = "stop"]
       /\ streaming' = notify_all(streaming)
       /\ pipeline' = [pipeline EXCEPT !.pc = "eos"]
       /\ UNCHANGED << frame_count, capture, downstream, propvars >>
    \/ /\ pipeline.pc = "eos"
       /\ self.mtx = "free"
       /\ self' = [self EXCEPT !.is_running = FALSE, !.state = "READY"]
       /\ streaming' = notify_all(streaming)
       /\ pipeline' = [pipeline EXCEPT !.pc = "idle", !.ret = "SUCCESS",
                                        !.parent = TRUE]
       /\ UNCHANGED << frame_count, capture, downstream, propvars >>

\* stop(), called on PAUSED -> READY: under device->mtx it clears
\* is_running, notifies, stops the stream and clears the queue; with the
\* mutex released it sends the EOS event, whose handling calls unlock()
gst_tcam_mainsrc_stop ==
    \/ /\ pipeline.pc = "idle"
       /\ self.state = "PAUSED"
       /\ self.mtx = "free"
       /\ self' = [stop_and_clear(self) EXCEPT !.is_running = FALSE]
       /\ streaming' = notify_all(streaming)
       /\ pipeline' = [pipeline EXCEPT !.pc = "eos"]
       /\ UNCHANGED << frame_count, capture, downstream, propvars >>
    \/ /\ pipeline.pc = "eos"
       /\ self.mtx = "free"
       /\ self' = [self EXCEPT !.is_running = FALSE, !.state = "READY"]
       /\ streaming' = notify_all(streaming)
       /\ pipeline' = [pipeline EXCEPT !.pc = "idle", !.ret = "SUCCESS",
                                        !.parent = TRUE]
       /\ UNCHANGED << frame_count, capture, downstream, propvars >>

\* a set_caps() that asks the device for the format with the stream and
\* the sink of before still in place
gst_tcam_mainsrc_set_caps_keeping ==
    \/ /\ self.state \in {"PAUSED", "PLAYING"}
       /\ streaming.pc = "idle"
       /\ self' = self
       /\ streaming' = [streaming EXCEPT !.pc = "caps"]
       /\ UNCHANGED << frame_count, pipeline, capture, downstream, propvars >>
    \/ /\ streaming.pc = "caps"
       /\ \E accepted \in BOOLEAN :
            IF accepted
            THEN /\ self' = [self EXCEPT !.sink = TRUE, !.stream = TRUE,
                                         !.is_running = TRUE]
                 /\ streaming' = [streaming EXCEPT !.pc = "idle", !.lost = FALSE,
                                                   !.caps = "TRUE"]
            ELSE /\ streaming' = [streaming EXCEPT !.pc = "idle",
                                                   !.caps = "FALSE"]
                 /\ UNCHANGED self
       /\ UNCHANGED << frame_count, pipeline, capture, downstream, propvars >>

\* set_caps(), called by the streaming thread between two create(): it
\* stops the stream and clears the sink without device->mtx, then asks the
\* device for the format; accepted, it installs a sink, starts the stream
\* and sets is_running and returns TRUE, rejected it returns FALSE
gst_tcam_mainsrc_set_caps ==
    \/ /\ self.state \in {"PAUSED", "PLAYING"}
       /\ streaming.pc = "idle"
       /\ self' = [stop_and_clear(self) EXCEPT !.sink = FALSE]
       /\ streaming' = [streaming EXCEPT !.pc = "caps"]
       /\ UNCHANGED << frame_count, pipeline, capture, downstream, propvars >>
    \/ /\ streaming.pc = "caps"
       /\ \E accepted \in BOOLEAN :
            IF accepted
            THEN /\ self' = [self EXCEPT !.sink = TRUE, !.stream = TRUE,
                                         !.is_running = TRUE]
                 /\ streaming' = [streaming EXCEPT !.pc = "idle", !.lost = FALSE,
                                                   !.caps = "TRUE"]
            ELSE /\ streaming' = [streaming EXCEPT !.pc = "idle",
                                                   !.caps = "FALSE"]
                 /\ UNCHANGED self
       /\ UNCHANGED << frame_count, pipeline, capture, downstream, propvars >>

\* unlock(): under device->mtx it clears is_running and notifies
gst_tcam_mainsrc_unlock ==
    /\ pipeline.pc = "idle"
    /\ self.state \in {"PAUSED", "PLAYING"}
    /\ self.mtx = "free"
    /\ self' = [self EXCEPT !.is_running = FALSE]
    /\ streaming' = notify_all(streaming)
    /\ UNCHANGED << frame_count, pipeline, capture, downstream, propvars >>

\* an sh_callback that pushes the buffer without notifying
gst_tcam_mainsrc_sh_callback_silent ==
    \/ /\ capture.pc = "idle"
       /\ self.dev = "open" /\ self.stream
       /\ self.seq < MaxFrames
       /\ Len(self.queue) < MaxQueue
       /\ self' = [self EXCEPT !.seq = @ + 1]
       /\ capture' = IF ~self.is_running THEN capture
                     ELSE [capture EXCEPT !.pc = "push", !.buf = self.seq + 1]
       /\ UNCHANGED << frame_count, streaming, pipeline, downstream, propvars >>
    \/ /\ capture.pc = "push"
       /\ self.mtx = "free"
       /\ self' = [self EXCEPT !.queue = Append(@, capture.buf)]
       /\ capture' = [capture EXCEPT !.pc = "idle"]
       /\ UNCHANGED << frame_count, streaming, pipeline, downstream, propvars >>

\* sh_callback, on the device's thread with a captured frame: it returns
\* when is_running is false; otherwise it takes device->mtx, pushes the
\* buffer and notifies
gst_tcam_mainsrc_sh_callback ==
    \/ /\ capture.pc = "idle"
       /\ self.dev = "open" /\ self.stream
       /\ self.seq < MaxFrames
       /\ Len(self.queue) < MaxQueue
       /\ self' = [self EXCEPT !.seq = @ + 1]
       /\ capture' = IF ~self.is_running THEN capture
                     ELSE [capture EXCEPT !.pc = "push", !.buf = self.seq + 1]
       /\ UNCHANGED << frame_count, streaming, pipeline, downstream, propvars >>
    \/ /\ capture.pc = "push"
       /\ self.mtx = "free"
       /\ self' = [self EXCEPT !.queue = Append(@, capture.buf)]
       /\ streaming' = notify_all(streaming)
       /\ capture' = [capture EXCEPT !.pc = "idle"]
       /\ UNCHANGED << frame_count, pipeline, downstream, propvars >>

\* the device-lost callback: it returns when is_running is false; otherwise
\* it posts the error, clears is_running without device->mtx and sends the
\* EOS event, whose handling calls unlock()
gst_tcam_mainsrc_device_lost_callback ==
    \/ /\ capture.lost = "idle"
       /\ self.dev = "open"
       /\ IF ~self.is_running
          THEN /\ self' = [self EXCEPT !.dev = "lost"]
               /\ UNCHANGED << capture, streaming >>
          ELSE /\ self' = [self EXCEPT !.dev = "lost", !.is_running = FALSE]
               /\ capture' = [capture EXCEPT !.lost = "eos", !.eos = @ + 1]
               /\ streaming' = [streaming EXCEPT !.lost = TRUE]
       /\ UNCHANGED << frame_count, pipeline, downstream, propvars >>
    \/ /\ capture.lost = "eos"
       /\ self.mtx = "free"
       /\ self' = [self EXCEPT !.is_running = FALSE]
       /\ streaming' = notify_all(streaming)
       /\ capture' = [capture EXCEPT !.lost = "idle"]
       /\ UNCHANGED << frame_count, pipeline, downstream, propvars >>

\* a create() that takes the newest buffer of the queue
gst_tcam_mainsrc_create_newest ==
    \/ /\ self.state = "PLAYING"
       /\ streaming.pc = "idle"
       /\ self.mtx = "free"
       /\ IF self.n_buffers # -1 /\ frame_count >= self.n_buffers
          THEN /\ streaming' = [streaming EXCEPT !.ret = "EOS", !.why = "count",
                                                 !.caps = "none"]
               /\ UNCHANGED << self, frame_count >>
          ELSE /\ frame_count' = IF self.n_buffers # -1 THEN frame_count + 1
                                                        ELSE frame_count
               /\ streaming' = [streaming EXCEPT !.pc = "loop", !.waited = FALSE,
                                                 !.counted = (self.n_buffers # -1),
                                                 !.caps = "none"]
               /\ self' = [self EXCEPT !.mtx = "create"]
       /\ UNCHANGED << pipeline, capture, downstream, propvars >>
    \/ /\ streaming.pc = "loop"
       /\ IF self.is_running /\ self.queue = <<>>
          THEN /\ streaming' = [streaming EXCEPT !.pc = "waiting", !.waited = TRUE]
               /\ self' = [self EXCEPT !.mtx = "free"]
          ELSE /\ streaming' = [streaming EXCEPT !.pc = "check"]
               /\ UNCHANGED self
       /\ UNCHANGED << frame_count, pipeline, capture, downstream, propvars >>
    \/ /\ streaming.pc = "woken"
       /\ self.mtx = "free"
       /\ streaming' = [streaming EXCEPT !.pc = "loop"]
       /\ self' = [self EXCEPT !.mtx = "create"]
       /\ UNCHANGED << frame_count, pipeline, capture, downstream, propvars >>
    \/ /\ streaming.pc = "check"
       /\ IF ~self.is_running
          THEN /\ streaming' = [streaming EXCEPT !.pc = "idle", !.ret = "EOS",
                                                 !.why = "not running"]
               /\ self' = [self EXCEPT !.mtx = "free"]
          ELSE /\ streaming' = [streaming EXCEPT
                                  !.pc = IF self.queue = <<>> THEN "loop" ELSE "pop"]
               /\ UNCHANGED self
       /\ UNCHANGED << frame_count, pipeline, capture, downstream, propvars >>
    \/ /\ streaming.pc = "pop"
       /\ LET ptr == self.queue[Len(self.queue)] IN
            /\ self' = [self EXCEPT !.queue = SubSeq(@, 1, Len(@) - 1),
                                    !.mtx = "free"]
            /\ streaming' = [streaming EXCEPT
                               !.pc = "idle", !.ret = "OK", !.why = "none",
                               !.prev = streaming.out, !.out = ptr,
                               !.handed = IF streaming.counted THEN @ + 1 ELSE @]
            /\ downstream' = [downstream EXCEPT !.out = @ \cup {ptr}]
       /\ UNCHANGED << frame_count, pipeline, capture, propvars >>

\* create(): under device->mtx the num-buffers count, then the wait for a
\* buffer or for the end of the run (cv.wait gives the mutex up and takes
\* it again once woken), the look at is_running, and the front of the queue
\* handed out with a transfer record for buffer_destroy_callback
gst_tcam_mainsrc_create ==
    \/ /\ self.state = "PLAYING"
       /\ streaming.pc = "idle"
       /\ self.mtx = "free"
       /\ IF self.n_buffers # -1 /\ frame_count >= self.n_buffers
          THEN /\ streaming' = [streaming EXCEPT !.ret = "EOS", !.why = "count",
                                                 !.caps = "none"]
               /\ UNCHANGED << self, frame_count >>
          ELSE /\ frame_count' = IF self.n_buffers # -1 THEN frame_count + 1
                                                        ELSE frame_count
               /\ streaming' = [streaming EXCEPT !.pc = "loop", !.waited = FALSE,
                                                 !.counted = (self.n_buffers # -1),
                                                 !.caps = "none"]
               /\ self' = [self EXCEPT !.mtx = "create"]
       /\ UNCHANGED << pipeline, capture, downstream, propvars >>
    \/ /\ streaming.pc = "loop"
       /\ IF self.is_running /\ self.queue = <<>>
          THEN /\ streaming' = [streaming EXCEPT !.pc = "waiting", !.waited = TRUE]
               /\ self' = [self EXCEPT !.mtx = "free"]
          ELSE /\ streaming' = [streaming EXCEPT !.pc = "check"]
               /\ UNCHANGED self
       /\ UNCHANGED << frame_count, pipeline, capture, downstream, propvars >>
    \/ /\ streaming.pc = "woken"
       /\ self.mtx = "free"
       /\ streaming' = [streaming EXCEPT !.pc = "loop"]
       /\ self' = [self EXCEPT !.mtx = "create"]
       /\ UNCHANGED << frame_count, pipeline, capture, downstream, propvars >>
    \/ /\ streaming.pc = "check"
       /\ IF ~self.is_running
          THEN /\ streaming' = [streaming EXCEPT !.pc = "idle", !.ret = "EOS",
                                                 !.why = "not running"]
               /\ self' = [self EXCEPT !.mtx = "free"]
          ELSE /\ streaming' = [streaming EXCEPT
                                  !.pc = IF self.queue = <<>> THEN "loop" ELSE "pop"]
               /\ UNCHANGED self
       /\ UNCHANGED << frame_count, pipeline, capture, downstream, propvars >>
    \/ /\ streaming.pc = "pop"
       /\ LET ptr == Head(self.queue) IN
            /\ self' = [self EXCEPT !.queue = Tail(@), !.mtx = "free"]
            /\ streaming' = [streaming EXCEPT
                               !.pc = "idle", !.ret = "OK", !.why = "none",
                               !.prev = streaming.out, !.out = ptr,
                               !.handed = IF streaming.counted THEN @ + 1 ELSE @]
            /\ downstream' = [downstream EXCEPT !.out = @ \cup {ptr}]
       /\ UNCHANGED << frame_count, pipeline, capture, propvars >>

\* cv.wait returns without a notification
cv_wait_spurious ==
    /\ streaming.pc = "waiting"
    /\ streaming' = [streaming EXCEPT !.pc = "woken"]
    /\ UNCHANGED << self, frame_count, pipeline, capture, downstream, propvars >>

\* buffer_destroy_callback, when downstream lets go of a buffer: under
\* device->mtx it looks at device->sink, requeues the buffer there if it is
\* set, and deletes the transfer record
buffer_destroy_callback ==
    \/ /\ downstream.pc = "idle"
       /\ self.mtx = "free"
       /\ \E ptr \in downstream.out :
            downstream' = [downstream EXCEPT !.pc = "locked", !.buf = ptr]
       /\ self' = [self EXCEPT !.mtx = "destroy"]
       /\ UNCHANGED << frame_count, streaming, pipeline, capture, propvars >>
    \/ /\ downstream.pc = "locked"
       /\ IF self.sink
          THEN /\ downstream' = [downstream EXCEPT !.pc = "requeue"]
               /\ UNCHANGED self
          ELSE /\ downstream' = [downstream EXCEPT !.pc = "idle",
                                                   !.out = @ \ {downstream.buf}]
               /\ self' = [self EXCEPT !.mtx = "free"]
       /\ UNCHANGED << frame_count, streaming, pipeline, capture, propvars >>
    \/ /\ downstream.pc = "requeue"
       /\ downstream' =
            [downstream EXCEPT
               !.pc = "idle",
               !.out = @ \ {downstream.buf},
               !.given = IF self.sink THEN @ \cup {downstream.buf} ELSE @,
               !.twice = @ \/ (self.sink /\ downstream.buf \in downstream.given),
               !.null_sink = @ \/ ~self.sink]
       /\ self' = [self EXCEPT !.mtx = "free"]
       /\ UNCHANGED << frame_count, streaming, pipeline, capture, propvars >>

\* the threads of the element: the pipeline's state changes, the streaming
\* thread, the device's thread and downstream
NextThreads ==
    \/ \E change \in StateChanges : gst_tcam_mainsrc_change_state(change, TRUE, TRUE)
    \/ gst_tcam_mainsrc_start
    \/ gst_tcam_mainsrc_stop
    \/ gst_tcam_mainsrc_set_caps
    \/ gst_tcam_mainsrc_unlock
    \/ gst_tcam_mainsrc_sh_callback
    \/ gst_tcam_mainsrc_device_lost_callback
    \/ gst_tcam_mainsrc_create
    \/ cv_wait_spurious
    \/ buffer_destroy_callback

\* the element with its properties num-buffers and camera-buffers, on a
\* device that stays and with downstream keeping the buffers
NextSrc ==
    \/ \E value \in NumBuffersArgs : set_property_num_buffers(value)
    \/ \E value \in CamBuffersArgs : set_property_cam_buffers(value)
    \/ \E change \in StateChanges : gst_tcam_mainsrc_change_state(change, TRUE, TRUE)
    \/ gst_tcam_mainsrc_start
    \/ gst_tcam_mainsrc_stop
    \/ gst_tcam_mainsrc_set_caps
    \/ gst_tcam_mainsrc_unlock
    \/ gst_tcam_mainsrc_sh_callback
    \/ gst_tcam_mainsrc_create

\* the properties as constructed for the first device, the hardware at
\* code 0
InitSrc ==
    /\ Init
    /\ enumImpl.m_entries = EntriesA
    /\ store.enum = Widen(0)

SpecSrc == InitSrc /\ [][NextSrc]_vars

SpecThreads == InitSrc /\ [][NextThreads]_vars

\* the element's state changes with a camera that may fail to open and a
\* parent class that may fail, its serial property, and one stream
NextState ==
    \/ \E empty \in BOOLEAN : set_property_serial(empty)
    \/ \E change \in StateChanges, initialised, parent_ok \in BOOLEAN :
         gst_tcam_mainsrc_change_state(change, initialised, parent_ok)
    \/ gst_tcam_mainsrc_start
    \/ gst_tcam_mainsrc_stop
    \/ gst_tcam_mainsrc_set_caps
    \/ gst_tcam_mainsrc_sh_callback
    \/ gst_tcam_mainsrc_device_lost_callback
    \/ gst_tcam_mainsrc_create

SpecState == InitSrc /\ [][NextState]_vars

\* the element on a device that stays, with downstream keeping the buffers
NextLive ==
    \/ \E change \in StateChanges : gst_tcam_mainsrc_change_state(change, TRUE, TRUE)
    \/ gst_tcam_mainsrc_start
    \/ gst_tcam_mainsrc_stop
    \/ gst_tcam_mainsrc_set_caps
    \/ gst_tcam_mainsrc_unlock
    \/ gst_tcam_mainsrc_sh_callback
    \/ gst_tcam_mainsrc_create

\* fair scheduling: the streaming thread goes on in create() whenever it
\* can, and so do a callback that has a buffer to push and a stop() that
\* has the EOS event to send
SpecLive ==
    /\ InitSrc
    /\ [][NextLive]_vars
    /\ WF_vars(gst_tcam_mainsrc_create)
    /\ WF_vars(gst_tcam_mainsrc_sh_callback /\ capture.pc = "push")
    /\ WF_vars(gst_tcam_mainsrc_stop /\ pipeline.pc = "eos")

\* ------------------------------------------------------------------------
\* vocabulary of the properties below
\* ------------------------------------------------------------------------

\* the caller has returned from method op
Done(op) == call.pc = "done" /\ call.op = op

\* the backend existed when the method was entered
Live == call.live

\* the backend did not report a failure during the method
Faithful == ~IsFailure(call.ret)

\* the method did not invoke the backend
Untouched == call.reads = 0 /\ call.writes = <<>>

\* the number of backend reads and writes of the method
Touches == call.reads + Len(call.writes)

\* the method left the backend's values and the Bool mirror as they were
NothingChanged == store = call.pre.store /\ boolImpl.m_value = call.pre.m_value

\* the codes of the enumeration table
TableKeys == { enumImpl.m_entries[i].first : i \in 1 .. Len(enumImpl.m_entries) }

\* the labels of the enumeration table
TableLabels == { enumImpl.m_entries[i].second : i \in 1 .. Len(enumImpl.m_entries) }

\* the int64_t code c is a key of the enumeration table
IsTableKey(c) == c.hi = 0 /\ c.lo \in TableKeys

\* the table maps the int64_t code c to label l
MapsTo(c, l) ==
    /\ c.hi = 0
    /\ \E i \in 1 .. Len(enumImpl.m_entries) :
         enumImpl.m_entries[i].first = c.lo /\ enumImpl.m_entries[i].second = l

\* ------------------------------------------------------------------------
\* C1
\* ------------------------------------------------------------------------

\* C1: Integer set_value(v) with v < min or v > max on a live backend
\* returns PropertyOutOfBounds, does not invoke the backend's set_int and
\* leaves the stored value as it was.
C1_IntegerOutOfRangeRejected ==
    ( /\ Done("Integer.set_value")
      /\ Live
      /\ (call.arg[1] < integerImpl.m_min \/ call.arg[1] > integerImpl.m_max) )
    => ( /\ IsFail(call.result, PropertyOutOfBounds)
         /\ call.writes = <<>>
         /\ store.int = call.pre.store.int )

\* ------------------------------------------------------------------------
\* C2
\* ------------------------------------------------------------------------

\* C2 as stated: once the backend has been released, every get_value,
\* get_value_int, set_value and set_value_str returns ResourceNotLockable,
\* whatever its argument.
C2_AlwaysNotLockableAfterRelease ==
    (call.pc = "done" /\ ~Live) => IsFail(call.result, ResourceNotLockable)

\* the Enum writes that the table lookup refuses before the backend is
\* resolved: set_value with a code whose int value is no key, set_value_str
\* with a label that is not in the table
RefusedByTable ==
    \/ call.op = "Enum.set_value" /\ call.arg[1].lo \notin TableKeys
    \/ call.op = "Enum.set_value_str" /\ call.arg[1] \notin TableLabels

\* C2 (amended): once the backend has been released, every method returns
\* a failure and never a value, and does not invoke the backend; the failure
\* is PropertyValueDoesNotExist for an Enum write that the table lookup
\* refuses and ResourceNotLockable for every other call and argument.
C2_FailsAfterRelease ==
    (call.pc = "done" /\ ~Live)
    => ( /\ Untouched
         /\ IF RefusedByTable
            THEN IsFail(call.result, PropertyValueDoesNotExist)
            ELSE IsFail(call.result, ResourceNotLockable) )

\* an out-of-range Integer write after the release fails with ResourceNotLockable
C2_Witness ==
    /\ Done("Integer.set_value")
    /\ ~Live
    /\ call.arg[1] > integerImpl.m_max
    /\ IsFail(call.result, ResourceNotLockable)

\* ------------------------------------------------------------------------
\* C3
\* ------------------------------------------------------------------------

\* C3: however a method interleaves with the device's release, the backend
\* is never used after its destruction; it exists as long as the method
\* holds its handle; and a method that tried to lock either returned
\* ResourceNotLockable without invoking the backend or invoked it once.
C3_NoDanglingAccess ==
    /\ ~dangling
    /\ call.pc \in {"locked", "called"} => (alive /\ call.ptr)
    /\ (call.pc = "done" /\ call.locks = 1)
       => \/ IsFail(call.result, ResourceNotLockable) /\ Untouched
          \/ ~IsFail(call.result, ResourceNotLockable) /\ Touches = 1

\* the backend call ran after the device had released its reference
C3_Witness ==
    /\ call.pc = "called"
    /\ ~owner
    /\ alive
    /\ Touches = 1

\* ------------------------------------------------------------------------
\* C4
\* ------------------------------------------------------------------------

\* C4: on a live, faithful backend Integer set_value(v) succeeds and stores
\* v for every v with min <= v <= max, and get_value() returns the argument
\* of the last successful set_value.
C4_IntegerSetThenGet ==
    /\ ( /\ Done("Integer.set_value")
         /\ Live /\ Faithful
         /\ integerImpl.m_min <= call.arg[1]
         /\ call.arg[1] <= integerImpl.m_max )
       => (IsOk(call.result) /\ store.int = call.arg[1])
    /\ ( /\ Done("Integer.get_value")
         /\ Live /\ Faithful
         /\ last_set.int # <<>> )
       => (IsOk(call.result) /\ call.result.v = last_set.int)

\* get_value() returned the upper boundary value written before it
C4_Witness ==
    /\ Done("Integer.get_value")
    /\ Live /\ Faithful
    /\ last_set.int = <<integerImpl.m_max>>
    /\ IsOk(call.result)
    /\ call.result.v[1] = integerImpl.m_max

\* ------------------------------------------------------------------------
\* C5
\* ------------------------------------------------------------------------

\* C5: Double set_value(v) with v outside [min, max] returns
\* PropertyOutOfBounds, does not invoke the backend's set_int and changes
\* nothing.
C5_DoubleOutOfRangeRejected ==
    ( /\ Done("Double.set_value")
      /\ Live
      /\ (call.arg[1] < doubleImpl.m_min \/ call.arg[1] > doubleImpl.m_max) )
    => ( /\ IsFail(call.result, PropertyOutOfBounds)
         /\ call.writes = <<>>
         /\ NothingChanged )

\* ------------------------------------------------------------------------
\* C6
\* ------------------------------------------------------------------------

\* C6: Enum set_value(code) with a code that is no key of the table returns
\* PropertyValueDoesNotExist without resolving or writing the backend; with
\* a key and a live backend the code goes unchanged to set_int.
C6_UnknownCodeRejected ==
    Done("Enum.set_value")
    => IF IsTableKey(call.arg[1])
       THEN Live => call.writes = << [id |-> "enum", v |-> call.arg[1]] >>
       ELSE /\ IsFail(call.result, PropertyValueDoesNotExist)
            /\ call.locks = 0
            /\ Untouched

\* ------------------------------------------------------------------------
\* C7
\* ------------------------------------------------------------------------

\* C7: on a live, faithful backend set_value_str(label) succeeds iff label
\* is an element of get_entries(); for any other label it returns
\* PropertyValueDoesNotExist and the backend's code stays what it was.
C7_SetValueStrIffEntry ==
    (Done("Enum.set_value_str") /\ Live /\ Faithful)
    => LET known == \E i \in DOMAIN EnumImpl_get_entries :
                        EnumImpl_get_entries[i] = call.arg[1]
       IN  /\ IsOk(call.result) <=> known
           /\ ~known => ( /\ IsFail(call.result, PropertyValueDoesNotExist)
                          /\ Untouched
                          /\ store.enum = call.pre.store.enum )

\* set_value_str with the table's first label succeeded
C7_Witness ==
    /\ Done("Enum.set_value_str")
    /\ Live /\ Faithful
    /\ call.arg[1] = enumImpl.m_entries[1].second
    /\ IsOk(call.result)

\* ------------------------------------------------------------------------
\* C8
\* ------------------------------------------------------------------------

\* C8: on a live, faithful backend get_value_int() returns the code the
\* backend holds and get_value() the table's label of that code; after a
\* successful set_value_str(l), get_value() returns l and get_value_int() a
\* code the table maps to l.
C8_EnumGetValue ==
    /\ (Done("Enum.get_value_int") /\ Live /\ Faithful)
       => ( /\ IsOk(call.result)
            /\ call.result.v[1] = store.enum
            /\ last_set.enum # <<>> => MapsTo(call.result.v[1], last_set.enum[1]) )
    /\ (Done("Enum.get_value") /\ Live /\ Faithful /\ IsTableKey(store.enum))
       => ( /\ IsOk(call.result)
            /\ MapsTo(store.enum, call.result.v[1])
            /\ last_set.enum # <<>> => call.result.v = last_set.enum )

\* get_value() returned the label of the second entry, set by set_value_str
C8_Witness ==
    /\ Done("Enum.get_value")
    /\ Live /\ Faithful
    /\ last_set.enum = <<enumImpl.m_entries[2].second>>
    /\ IsOk(call.result)
    /\ call.result.v = last_set.enum
    /\ store.enum = Widen(1)

\* ------------------------------------------------------------------------
\* C9
\* ------------------------------------------------------------------------

\* C9: every method ends with a result, a value or a failure; Enum
\* get_value() does so for every code the backend reports.
C9_AlwaysAResult ==
    call.pc = "done" => call.result.kind \in {"value", "failure"}

\* ------------------------------------------------------------------------
\* C10
\* ------------------------------------------------------------------------

\* C10: a failure reported by a live backend's read or write is what the
\* property method returns.
C10_BackendFailurePassedThrough ==
    (call.pc = "done" /\ IsFailure(call.ret)) => call.result = call.ret

\* ------------------------------------------------------------------------
\* C11
\* ------------------------------------------------------------------------

\* C11: the Bool mirror m_value starts as the default; a set_value(b)
\* makes it b when the backend write succeeded and leaves it as it was when
\* the backend reported a failure or could not be resolved; nothing else
\* changes it.
C11_MirrorFollowsSuccess ==
    /\ call.pc = "idle" => boolImpl.m_value = boolImpl.m_default
    /\ Done("Bool.set_value")
       => boolImpl.m_value = IF IsOk(call.ret) THEN call.arg[1] ELSE call.pre.m_value
    /\ (call.pc # "idle" /\ call.op # "Bool.set_value")
       => boolImpl.m_value = call.pre.m_value

\* a write of the opposite value failed in the backend and the mirror kept
\* its value
C11_Witness ==
    /\ Done("Bool.set_value")
    /\ Live
    /\ IsFailure(call.ret)
    /\ call.arg[1] # call.pre.m_value
    /\ boolImpl.m_value = call.pre.m_value

\* ------------------------------------------------------------------------
\* C12
\* ------------------------------------------------------------------------

\* the integer nearest to the double d (tenths), halves away from zero
Nearest(d) == IF d >= 0 THEN (d + 5) \div 10 ELSE 0 - ((5 - d) \div 10)

\* C12: Double set_value(x) on a live backend passes the integer nearest
\* to x to set_int, and get_value() returns the backend's integer as the
\* double of the same value.
C12_DoubleForwardsNearest ==
    /\ (Done("Double.set_value") /\ Live)
       => call.writes = << [id |-> "dbl", v |-> Nearest(call.arg[1])] >>
    /\ (Done("Double.get_value") /\ Live /\ Faithful)
       => (IsOk(call.result) /\ call.result.v[1] = IntToDouble(store.dbl))

\* ------------------------------------------------------------------------
\* C13
\* ------------------------------------------------------------------------

\* C13: a property owns a share of the backend only while one of its
\* methods runs: the owners are the device and the handle of the method in
\* progress, and whenever no method is in progress the backend exists
\* exactly as long as the device holds its reference, however many
\* properties exist.
C13_NoLifetimeExtension ==
    /\ call.ptr <=> call.pc \in {"locked", "called"}
    /\ use_count = (IF owner THEN 1 ELSE 0) + (IF call.ptr THEN 1 ELSE 0)
    /\ alive <=> use_count > 0
    /\ Idle => (alive <=> owner)

\* a method succeeded on the live backend and the device's release then
\* destroyed the backend
C13_Witness ==
    /\ call.pc = "done"
    /\ Live
    /\ IsOk(call.result)
    /\ ~owner
    /\ ~alive

\* ------------------------------------------------------------------------
\* C14
\* ------------------------------------------------------------------------

\* what the range getters of the two numeric properties return
RangeGetters ==
    << IntegerImpl_get_min, IntegerImpl_get_max, IntegerImpl_get_step,
       IntegerImpl_get_default,
       DoubleImpl_get_min, DoubleImpl_get_max, DoubleImpl_get_step,
       DoubleImpl_get_default >>

\* the range getters return what device record d passed to the constructors
ConstructedWith(d) ==
    RangeGetters = << d.int.min, d.int.max, d.int.step, d.int.default,
                      d.dbl.min, d.dbl.max, d.dbl.step, d.dbl.default >>

\* C14: get_min, get_max, get_step and get_default return the values
\* passed to the constructor, and no step (get_value, set_value that
\* succeeds or fails, a change of the backend's value, the release of the
\* backend) changes what they return.
C14_RangeFixedAtConstruction ==
    /\ \E d \in Devices : ConstructedWith(d)
    /\ [][RangeGetters' = RangeGetters]_vars

\* the backend is gone and held a value other than the default; the getters
\* still answer with the constructor's values
C14_Witness ==
    /\ ~alive
    /\ last_set.int # <<>>
    /\ store.int # IntegerImpl_get_default
    /\ \E d \in Devices : ConstructedWith(d)

\* ------------------------------------------------------------------------
\* C15
\* ------------------------------------------------------------------------

C16_NoRetry ==
    /\ call.locks <= 1
    /\ Touches <= 1
    /\ (call.pc = "done" /\ IsFail(call.result, ResourceNotLockable)) => Untouched

\* a write failed in the backend and the method returned after that one write
C16_Witness ==
    /\ call.pc = "done"
    /\ IsFailure(call.ret)
    /\ call.locks = 1
    /\ call.reads = 0
    /\ Len(call.writes) = 1

\* ------------------------------------------------------------------------
\* C17
\* ------------------------------------------------------------------------

\* two results are the same
SameResult(a, b) == a.kind = b.kind /\ a.v = b.v

\* C17 as stated: a get_value() entered right after the same get_value()
\* returned (no set_value in between) returns what the first one returned,
\* and a get_value() changes neither the backend's values nor the property.
C17_GetTwiceSame ==
    (call.pc = "done" /\ call.op \in GetValueOps)
    => ( /\ NothingChanged
         /\ call.first # <<>> => SameResult(call.result, call.first[1].result) )

\* C17 (amended): the two results are the same whenever the backend exists
\* at both calls and reports no failure in either; a get_value() changes
\* neither the backend's values nor the property.
C17_GetTwiceSameWhileLive ==
    (call.pc = "done" /\ call.op \in GetValueOps)
    => ( /\ NothingChanged
         /\ ( /\ call.first # <<>>
              /\ Live /\ Faithful
              /\ call.first[1].live /\ call.first[1].faithful )
            => SameResult(call.result, call.first[1].result) )

\* Integer get_value() returned a value other than the default twice in a row
C17_Witness ==
    /\ Done("Integer.get_value")
    /\ call.first # <<>>
    /\ IsOk(call.result)
    /\ IsOk(call.first[1].result)
    /\ call.result.v[1] # integerImpl.m_default
    /\ call.result.v = call.first[1].result.v

\* ------------------------------------------------------------------------
\* C18
\* ------------------------------------------------------------------------

\* C18: in every state, the backend alive or released, get_entries() is the
\* list of the labels of the table the property was constructed with: one
\* element per entry, the i-th element the label of the entry with the i-th
\* smallest code.
C18_GetEntriesIsTable ==
    \E d \in Devices :
        /\ enumImpl.m_entries = d.entries
        /\ Len(EnumImpl_get_entries) = Len(d.entries)
        /\ \A i \in 1 .. Len(d.entries) :
              /\ EnumImpl_get_entries[i] = d.entries[i].second
              /\ \A j \in 1 .. Len(d.entries) :
                    i < j => d.entries[i].first < d.entries[j].first

\* the backend is gone and get_entries() of the table with codes 0, 1, 3
\* still lists its three labels, the repeated one twice
C18_Witness ==
    /\ ~alive
    /\ Idle
    /\ TableKeys = {0, 1, 3}
    /\ EnumImpl_get_entries = << "Off", "Auto", "Auto" >>

\* ------------------------------------------------------------------------
\* C19
\* ------------------------------------------------------------------------

\* C19: in a run (since start()) during which num-buffers has stayed N,
\* after a create() has returned: for N >= 0 the run has handed out at most
\* N buffers and the count ends the stream only when it has handed out
\* exactly N; for N = -1 the count never ends the stream.
C19_ExactlyNPerRun ==
    (streaming.pc = "idle" /\ streaming.ret # "none" /\ ~streaming.changed)
    => IF self.n_buffers >= 0
       THEN /\ streaming.handed <= self.n_buffers
            /\ (streaming.ret = "EOS" /\ streaming.why = "count")
               => streaming.handed = self.n_buffers
       ELSE ~(streaming.ret = "EOS" /\ streaming.why = "count")

\* ------------------------------------------------------------------------
\* C20
\* ------------------------------------------------------------------------

\* C20: a set_property(camera-buffers) issued while the element is not in
\* GST_STATE_NULL leaves imagesink_buffers unchanged.
C20_CamBuffersOnlyInNull ==
    [][ \A value \in CamBuffersArgs :
          (set_property_cam_buffers(value) /\ self.state # "NULL")
          => self'.imagesink_buffers = self.imagesink_buffers ]_vars

\* ------------------------------------------------------------------------
\* C21
\* ------------------------------------------------------------------------

\* C21: valid_value(v) of the Integer and of the Double property succeeds
\* exactly when min <= v <= max (both ends accepted) and otherwise returns
\* PropertyOutOfBounds; the step plays no part.
C21_ValidIffInRange ==
    /\ Done("Integer.valid_value")
       => /\ IsOk(call.result)
             <=> (integerImpl.m_min <= call.arg[1] /\ call.arg[1] <= integerImpl.m_max)
          /\ ~IsOk(call.result) => IsFail(call.result, PropertyOutOfBounds)
    /\ Done("Double.valid_value")
       => /\ IsOk(call.result)
             <=> (doubleImpl.m_min <= call.arg[1] /\ call.arg[1] <= doubleImpl.m_max)
          /\ ~IsOk(call.result) => IsFail(call.result, PropertyOutOfBounds)

\* Integer valid_value accepted the maximum, which is off the step grid
C21_Witness ==
    /\ Done("Integer.valid_value")
    /\ IsOk(call.result)
    /\ call.arg[1] = integerImpl.m_max
    /\ (call.arg[1] - integerImpl.m_min) % integerImpl.m_step # 0

\* ------------------------------------------------------------------------
\* C22
\* ------------------------------------------------------------------------

\* the lowest code the table maps to label l
LowestCode(l) ==
    CHOOSE k \in TableKeys :
        /\ MapsTo(Widen(k), l)
        /\ \A j \in TableKeys : MapsTo(Widen(j), l) => k <= j

\* what set_value(c) with a code c of the table does: no backend read; with
\* the backend gone ResourceNotLockable and nothing written; otherwise the
\* one write set_int(enum, c), the backend's result returned as it is, and
\* the backend's code c when the write succeeded, unchanged when it failed
WroteCode(c) ==
    /\ call.reads = 0
    /\ boolImpl.m_value = call.pre.m_value
    /\ IF call.live
       THEN /\ call.writes = << [id |-> "enum", v |-> c] >>
            /\ call.result = call.ret
            /\ store = IF IsOk(call.ret) THEN [call.pre.store EXCEPT !.enum = c]
                                         ELSE call.pre.store
       ELSE /\ call.writes = <<>>
            /\ IsFail(call.result, ResourceNotLockable)
            /\ store = call.pre.store

\* C22: set_value_str(label) with a label of the table and set_value(c) with
\* a code of the table obey the same rule, set_value_str for the lowest
\* code that carries the label: same result, same write, same backend
\* value afterwards, and no backend call for the reverse lookup.
C22_StrIsSetValueOfCode ==
    /\ (Done("Enum.set_value") /\ IsTableKey(call.arg[1]))
       => WroteCode(call.arg[1])
    /\ (Done("Enum.set_value_str") /\ call.arg[1] \in TableLabels)
       => WroteCode(Widen(LowestCode(call.arg[1])))

\* set_value_str with the label that two entries carry wrote the lower code
C22_Witness ==
    /\ Done("Enum.set_value_str")
    /\ Live /\ Faithful
    /\ Cardinality({ k \in TableKeys : MapsTo(Widen(k), call.arg[1]) }) = 2
    /\ IsOk(call.result)
    /\ store.enum = Widen(1)

\* ------------------------------------------------------------------------
\* C23
\* ------------------------------------------------------------------------

\* C23: in every reachable state the Integer and the Double property have
\* min <= default <= max and step > 0, whatever record was passed to the
\* constructor.
C23_RangeWellFormed ==
    /\ IntegerImpl_get_min <= IntegerImpl_get_default
    /\ IntegerImpl_get_default <= IntegerImpl_get_max
    /\ IntegerImpl_get_step > 0
    /\ DoubleImpl_get_min <= DoubleImpl_get_default
    /\ DoubleImpl_get_default <= DoubleImpl_get_max
    /\ DoubleImpl_get_step > 0

\* ------------------------------------------------------------------------
\* C24
\* ------------------------------------------------------------------------

\* the streaming thread is in the cv.wait of create()
Blocked == streaming.pc \in {"waiting", "woken"}

C25_NoPushWhileStopped ==
    [][ Len(self'.queue) > Len(self.queue) => self.is_running ]_vars

\* ------------------------------------------------------------------------
\* C26
\* ------------------------------------------------------------------------

\* C26: device->mtx is held only by create() between its lock and its
\* return, not while it is in cv.wait, and by buffer_destroy_callback
\* between its lock and its return; the holder can always take its next
\* step; stop() does not hold it when it sends the EOS event, nor does the
\* device-lost callback, so the unlock() that EOS handling calls finds the
\* mutex free or held by another thread that will release it.
C26_MutexNeverStuck ==
    /\ self.mtx \in {"free", "create", "destroy"}
    /\ self.mtx = "create" <=> streaming.pc \in {"loop", "check", "pop"}
    /\ self.mtx = "destroy" <=> downstream.pc \in {"locked", "requeue"}
    /\ self.mtx = "create" => ENABLED gst_tcam_mainsrc_create
    /\ self.mtx = "destroy" => ENABLED buffer_destroy_callback
    /\ (pipeline.pc = "eos" /\ self.mtx = "free") => ENABLED gst_tcam_mainsrc_stop

\* stop() is about to send EOS while create() is leaving cv.wait, the
\* device's thread has a buffer to push and downstream returns a buffer
C26_Witness ==
    /\ pipeline.pc = "eos"
    /\ streaming.pc = "woken"
    /\ capture.pc = "push"
    /\ downstream.out # {}
    /\ self.mtx = "free"

\* ------------------------------------------------------------------------
\* C27
\* ------------------------------------------------------------------------

\* the streaming thread is inside create()
InCreate == streaming.pc \in {"loop", "waiting", "woken", "check", "pop"}

\* a create() returns in this step
CreateReturns == InCreate /\ streaming'.pc = "idle"

\* a create() returns GST_FLOW_OK in this step
CreateHandsOut == CreateReturns /\ streaming'.ret = "OK"

\* C27: when create() returns GST_FLOW_OK the queue was not empty, the
\* buffer handed out is the front of the queue, which is removed and the
\* rest left as it was; it was enqueued after every buffer handed out
\* before (buffers are numbered as sh_callback receives them), and it is
\* not a buffer that is already out.
C27_FrontOfQueueOnce ==
    [][ CreateHandsOut
        => /\ self.queue # <<>>
           /\ streaming'.out = Head(self.queue)
           /\ self'.queue = Tail(self.queue)
           /\ streaming'.out > streaming.out
           /\ streaming'.out \notin downstream.out
           /\ \A i \in 1 .. Len(self.queue) - 1 : self.queue[i] < self.queue[i + 1]
      ]_vars

\* the first two buffers were handed out one after the other
C27_Witness ==
    /\ streaming.pc = "idle"
    /\ streaming.ret = "OK"
    /\ streaming.prev = 1
    /\ streaming.out = 2

\* ------------------------------------------------------------------------
\* C28
\* ------------------------------------------------------------------------

\* create() is past its wait and looks at is_running in this step
CreateLooksAtRunning == streaming.pc = "check" /\ streaming'.pc # "check"

\* C28: a create() that finds is_running false after its wait returns
\* GST_FLOW_EOS and leaves the queue as it is, and a create() hands a buffer
\* out only in a state where is_running is true.
C28_HandsOutOnlyWhileRunning ==
    [][ /\ (CreateLooksAtRunning /\ ~self.is_running)
             => /\ streaming'.pc = "idle"
                /\ streaming'.ret = "EOS"
                /\ self'.queue = self.queue
        /\ CreateHandsOut => self.is_running
      ]_vars

\* ------------------------------------------------------------------------
\* C29
\* ------------------------------------------------------------------------

\* the device-lost callback is called in this step
DeviceLost == self.dev = "open" /\ self'.dev = "lost"

\* C29: the device-lost callback called while is_running is false changes
\* nothing of the element; called while is_running is true it clears
\* is_running and sends one EOS event, and leaves to the pipeline what
\* stop() does (the queue, the stream, the state); and once the device is
\* lost in a run every create() that returns in that run, one that was
\* waiting for a buffer included, returns GST_FLOW_EOS.
C29_EosAfterDeviceLost ==
    [][ /\ (DeviceLost /\ ~self.is_running)
             => /\ ~self'.is_running
                /\ << capture, streaming, pipeline >>' = << capture, streaming, pipeline >>
                /\ << self.state, self.queue, self.stream, self.sink >>'
                     = << self.state, self.queue, self.stream, self.sink >>
        /\ (DeviceLost /\ self.is_running)
             => /\ ~self'.is_running
                /\ capture'.eos = 1
                /\ capture.eos = 0
                /\ pipeline' = pipeline
                /\ << self.state, self.queue, self.stream, self.sink >>'
                     = << self.state, self.queue, self.stream, self.sink >>
        /\ (CreateReturns /\ streaming.lost) => streaming'.ret = "EOS"
      ]_vars

\* ------------------------------------------------------------------------
\* C30
\* ------------------------------------------------------------------------

\* buffer_destroy_callback returns in this step
DestroyReturns == downstream.pc # "idle" /\ downstream'.pc = "idle"

\* C30: when buffer_destroy_callback returns, its buffer has been given to
\* the image sink exactly if device->sink is set, never a second time and
\* never through a device->sink that was cleared after the callback looked
\* at it, and the transfer record of the buffer is gone.
C30_RequeuedAtMostOnce ==
    [][ DestroyReturns
        => /\ (downstream.buf \in downstream'.given) <=> self.sink
           /\ downstream.buf \notin downstream.given
           /\ ~downstream'.twice
           /\ ~downstream'.null_sink
           /\ downstream.buf \notin downstream'.out
      ]_vars

\* ------------------------------------------------------------------------
\* C31
\* ------------------------------------------------------------------------

\* change_state(NULL -> READY) returns in this step
NullToReady ==
    /\ self.state = "NULL"
    /\ pipeline' # pipeline \/ self'.state = "READY"

\* C31: a change_state(NULL -> READY) that finds no device open either
\* opens it and goes on to the parent class, or fails to open it and then
\* returns GST_STATE_CHANGE_FAILURE without the parent class, the element
\* still in NULL; and the element is in no state but NULL with no device
\* open.
C31_NoReadyWithoutDevice ==
    [][ /\ (NullToReady /\ self.dev = "closed")
             => \/ self'.dev = "open" /\ pipeline'.parent
                \/ /\ self'.dev = "closed"
                   /\ pipeline'.ret = "FAILURE"
                   /\ ~pipeline'.parent
                   /\ self'.state = "NULL"
        /\ self'.state # "NULL" => self'.dev # "closed"
      ]_vars

\* the camera could not be initialised and change_state has given up
C31_Witness ==
    /\ self.state = "NULL"
    /\ self.dev = "closed"
    /\ pipeline.ret = "FAILURE"
    /\ ~pipeline.parent

\* ------------------------------------------------------------------------
\* C32
\* ------------------------------------------------------------------------

\* change_state(READY -> NULL) returns in this step
ReadyToNull ==
    /\ self.state = "READY"
    /\ self'.state # "PAUSED"
    /\ pipeline' # pipeline \/ self'.state = "NULL"

SetCapsBegins == streaming.pc = "idle" /\ streaming'.pc = "caps"

\* set_caps() returns in this step
SetCapsReturns == streaming.pc = "caps" /\ streaming'.pc = "idle"

\* C33: set_caps() begins by stopping the stream and clearing the sink; it
\* returns TRUE or FALSE: FALSE with no sink, no stream and is_running as
\* it found it, TRUE with a sink, the stream started and is_running true.
C33_SetCapsAllOrNothing ==
    [][ /\ SetCapsBegins
             => /\ ~self'.sink
                /\ ~self'.stream
                /\ self'.is_running = self.is_running
        /\ SetCapsReturns => streaming'.caps \in {"TRUE", "FALSE"}
        /\ (SetCapsReturns /\ streaming'.caps = "FALSE")
             => /\ ~self'.sink
                /\ ~self'.stream
                /\ self'.is_running = self.is_running
        /\ (SetCapsReturns /\ streaming'.caps = "TRUE")
             => /\ self'.sink
                /\ self'.stream
                /\ self'.is_running
      ]_vars

\* the device has rejected the format of a running element
C33_Witness ==
    /\ streaming.pc = "idle"
    /\ streaming.caps = "FALSE"
    /\ self.is_running
    /\ ~self.sink
    /\ ~self.stream

====
